---- MODULE Spec2Model ----
(***************************************************************************)
(* Model of the "latest articles" hook of the documentation site:          *)
(* src/hooks/useLatestDocs.ts.  One call of useLatestDocs(count) reads the *)
(* docs plugin's global data, filters the corpus, sorts the survivors by   *)
(* last_update date and maps the first `count` of them to LatestDoc        *)
(* records, all inside one try/catch.                                      *)
(*                                                                         *)
(* JavaScript values are modelled as follows.                              *)
(*   - An optional property is a record field that may be missing from the *)
(*     record's DOMAIN; `a?.b` is a guarded field access.                  *)
(*   - Strings that the code only passes along or tests for truthiness     *)
(*     (title, description, date, permalink) are TLA+ strings.             *)
(*   - The document id, which the code inspects character by character     *)
(*     (endsWith, split, charAt, slice), is a sequence of one-character    *)
(*     strings, and so is the derived category.                            *)
(*   - new Date(s).getTime() is a table over the date strings of the       *)
(*     model, in days since 1970-01-01 (the millisecond value divided by   *)
(*     86400000, which keeps every sign and comparison); a string outside  *)
(*     the table does not parse and yields NaN.                            *)
(*   - Array.prototype.sort follows ECMA-262: a comparator result of NaN   *)
(*     counts as +0; with a consistent comparator the result is the stable *)
(*     sort; with an inconsistent one the order is implementation-defined, *)
(*     i.e. any permutation of the array.                                  *)
(***************************************************************************)
EXTENDS Integers, Sequences, FiniteSets, TLC

VARIABLES
    pluginData,  \* what usePluginData('docusaurus-plugin-content-docs') yields
    pc,          \* "idle" before the call, "returned" after it
    count,       \* the argument of the call
    validDocs,   \* the array made by filter and sorted in place: indices into docs
    result,      \* the returned LatestDoc[]
    outcome,     \* how the call ended: "none", "noData", "mapped", "caught", "threw"
    calls,       \* how many calls of the hook have been made
    earlier,     \* what the calls before the latest one returned, by count
    sortMemo,    \* what the engine's sort made of the array it last sorted
    articles,    \* the articles LatestArticlesSection chose to show
    cards,       \* the article cards LatestArticlesSection rendered
    runs,        \* the calls of the hook that proceed step by step, each with its locals
    mounted,     \* whether a FontSizeControl is mounted
    fontSize,    \* FontSizeControl's state: the font size in px
    isVisible,   \* FontSizeControl's state: the panel is shown
    isReadingMode, \* FontSizeControl's state: reading mode is on
    readingTime, \* FontSizeControl's state: minutes of reading, 0 until computed
    localStorage, \* window.localStorage: key -> string, for the keys that are set
    document,    \* what the component reads and writes in the page
    setItems,    \* the value of the last localStorage.setItem call made for each key
    requested,   \* the argument of this instance's last handleFontSizeChange call
    toggleTrail  \* what reading mode was before each of the latest consecutive toggles

hookVars == <<pluginData, pc, count, validDocs, result, outcome, calls, earlier, sortMemo, articles, cards>>

componentVars ==
    <<mounted, fontSize, isVisible, isReadingMode, readingTime, localStorage, document,
      setItems, requested, toggleTrail>>

vars == <<hookVars, runs, componentVars>>

(***************************************************************************)
(* Bounds of the model.                                                    *)
(***************************************************************************)
MaxDocs == 2         \* corpus length under Spec (all filter-relevant shapes)
MaxRanked == 4       \* corpus length under SpecRank (all date shapes)
MaxCount == 3        \* largest requested count
MaxNegCount == 2     \* most negative requested count is -MaxNegCount
MaxFormatted == 2    \* entries of versions[0].docs when the entries vary in id and reading_time
MaxRepeated == 3     \* entries of versions[0].docs when the hook is called more than once
MaxScenario == 3     \* entries of versions[0].docs in the end-to-end scenario
MaxVersionDocs == 2  \* entries of versions[0].docs when the snapshot has several versions
MaxLaterVersions == 1 \* versions after versions[0]
MaxReentrantDocs == 2 \* entries of versions[0].docs of each of two interleaved calls
MaxReentrantCount == 2 \* largest count of an interleaved call
MaxDefaulted == 2    \* entries of versions[0].docs when the entries vary in their optional fields
MaxCalls == 2        \* calls of the hook in one behaviour

Counts == (0 - MaxNegCount)..MaxCount

(***************************************************************************)
(* Generic helpers.                                                        *)
(***************************************************************************)
Has(r, f) == f \in DOMAIN r

Range(s) == {s[i] : i \in 1..Len(s)}

SeqsUpTo(S, n) == UNION {[1..k -> S] : k \in 0..n}

Min(a, b) == IF a <= b THEN a ELSE b

Max(a, b) == IF a >= b THEN a ELSE b

\* String.prototype.endsWith on character sequences.
EndsWith(s, suffix) ==
    /\ Len(s) >= Len(suffix)
    /\ SubSeq(s, Len(s) - Len(suffix) + 1, Len(s)) = suffix

\* String.prototype.split with a one-character separator.
Split(s, sep) ==
    LET RECURSIVE go(_, _, _)
        go(i, cur, acc) ==
            IF i > Len(s) THEN Append(acc, cur)
            ELSE IF s[i] = sep THEN go(i + 1, <<>>, Append(acc, cur))
            ELSE go(i + 1, Append(cur, s[i]), acc)
    IN go(1, <<>>, <<>>)

\* Array.prototype.join with a one-character separator.
Join(words, sep) ==
    LET RECURSIVE go(_, _)
        go(i, acc) ==
            IF i > Len(words) THEN acc
            ELSE go(i + 1, IF i = 1 THEN words[i] ELSE acc \o <<sep>> \o words[i])
    IN go(1, <<>>)

LowerCase ==
    <<"a", "b", "c", "d", "e", "f", "g", "h", "i", "j", "k", "l", "m",
      "n", "o", "p", "q", "r", "s", "t", "u", "v", "w", "x", "y", "z">>

UpperCase ==
    <<"A", "B", "C", "D", "E", "F", "G", "H", "I", "J", "K", "L", "M",
      "N", "O", "P", "Q", "R", "S", "T", "U", "V", "W", "X", "Y", "Z">>

\* String.prototype.toUpperCase on one character.
ToUpperCase(c) ==
    IF \E i \in 1..Len(LowerCase) : LowerCase[i] = c
    THEN UpperCase[CHOOSE i \in 1..Len(LowerCase) : LowerCase[i] = c]
    ELSE c

(***************************************************************************)
(* The Date primitive.                                                     *)
(***************************************************************************)
\* new Date(s).getTime() for the strings that parse, in days since the epoch.
DateTable ==
    ("1970-01-01" :> 0) @@ ("2026-01-10" :> 20463) @@ ("2026-01-14" :> 20467)
    @@ ("1969-06-01" :> (0 - 214))

\* Whether new Date(s).getTime() is a number (not NaN).
DateParses(s) == s \in DOMAIN DateTable

GetTime(s) == DateTable[s]

(***************************************************************************)
(* Field access on a DocMetadata, with the code's optional chaining.       *)
(***************************************************************************)
\* doc.description is truthy
HasTopDescription(doc) == Has(doc, "description") /\ doc.description # ""

\* doc.frontMatter?.description is truthy
HasFmDescription(doc) ==
    /\ Has(doc, "frontMatter")
    /\ Has(doc.frontMatter, "description")
    /\ doc.frontMatter.description # ""

\* doc.frontMatter?.draft is truthy
DraftTruthy(doc) ==
    /\ Has(doc, "frontMatter")
    /\ Has(doc.frontMatter, "draft")
    /\ doc.frontMatter.draft

\* doc.frontMatter?.last_update?.date is truthy
HasDate(doc) ==
    /\ Has(doc, "frontMatter")
    /\ Has(doc.frontMatter, "last_update")
    /\ Has(doc.frontMatter.last_update, "date")
    /\ doc.frontMatter.last_update.date # ""

\* doc.frontMatter?.reading_time is truthy
HasReadingTime(doc) ==
    /\ Has(doc, "frontMatter")
    /\ Has(doc.frontMatter, "reading_time")
    /\ doc.frontMatter.reading_time # 0

(***************************************************************************)
(* The three stages of the pipeline.                                       *)
(***************************************************************************)
IntroSuffix == <<"i", "n", "t", "r", "o">>

SlashIntroSuffix == <<"/">> \o IntroSuffix

\* The filter callback with the '/intro' test alone.
IsEligibleSlashIntroOnly(doc) ==
    LET hasDescription == HasTopDescription(doc) \/ HasFmDescription(doc)
        isNotIntro == ~EndsWith(doc.id, SlashIntroSuffix)
        isNotDraft == ~DraftTruthy(doc)
    IN hasDescription /\ isNotIntro /\ isNotDraft

\* The filter callback passing only entries that have a frontMatter.
IsEligibleRequiringFrontMatter(doc) ==
    LET hasDescription == HasTopDescription(doc) \/ HasFmDescription(doc)
        isNotIntro == ~EndsWith(doc.id, SlashIntroSuffix) /\ ~EndsWith(doc.id, IntroSuffix)
        isNotDraft == ~DraftTruthy(doc)
    IN Has(doc, "frontMatter") /\ hasDescription /\ isNotIntro /\ isNotDraft

\* The filter callback without the draft test.
IsEligibleIgnoringDraft(doc) ==
    LET hasDescription == HasTopDescription(doc) \/ HasFmDescription(doc)
        isNotIntro == ~EndsWith(doc.id, SlashIntroSuffix) /\ ~EndsWith(doc.id, IntroSuffix)
    IN hasDescription /\ isNotIntro

\* The filter callback without the description test.
IsEligibleIgnoringDescription(doc) ==
    LET isNotIntro == ~EndsWith(doc.id, SlashIntroSuffix) /\ ~EndsWith(doc.id, IntroSuffix)
        isNotDraft == ~DraftTruthy(doc)
    IN isNotIntro /\ isNotDraft

\* The filter callback: hasDescription && isNotIntro && isNotDraft.
IsEligible(doc) ==
    LET hasDescription == HasTopDescription(doc) \/ HasFmDescription(doc)
        isNotIntro == ~EndsWith(doc.id, SlashIntroSuffix) /\ ~EndsWith(doc.id, IntroSuffix)
        isNotDraft == ~DraftTruthy(doc)
    IN hasDescription /\ isNotIntro /\ isNotDraft

\* A filter that yields every eligible entry twice.
FilterTwice(docs) ==
    LET kept == SelectSeq([i \in 1..Len(docs) |-> i], LAMBDA i : IsEligible(docs[i]))
    IN kept \o kept

\* allDocs.filter(...): a new array holding the eligible entries (as indices
\* into allDocs, which stand for the object references), in corpus order.
Filter(docs) ==
    SelectSeq([i \in 1..Len(docs) |-> i], LAMBDA i : IsEligible(docs[i]))

\* a.frontMatter?.last_update?.date || '1970-01-01'
SortDate(doc) ==
    IF HasDate(doc) THEN doc.frontMatter.last_update.date ELSE "1970-01-01"

\* The comparator's result is NaN when either date does not parse.
CompareIsNaN(a, b) == ~DateParses(SortDate(a)) \/ ~DateParses(SortDate(b))

\* new Date(dateA).getTime() - new Date(dateB).getTime(): oldest first.
CompareAscending(a, b) == GetTime(SortDate(a)) - GetTime(SortDate(b))

\* new Date(dateB).getTime() - new Date(dateA).getTime(), when it is a number.
CompareFn(a, b) == GetTime(SortDate(b)) - GetTime(SortDate(a))

\* What sort makes of the comparator's result: NaN counts as +0.
SortCompare(a, b) == IF CompareIsNaN(a, b) THEN 0 ELSE CompareFn(a, b)

\* ECMA-262's "consistent comparison function" for the entries at indices S.
ConsistentComparator(docs, S) ==
    \A i, j, k \in S :
        LET ij == SortCompare(docs[i], docs[j])
            jk == SortCompare(docs[j], docs[k])
            ik == SortCompare(docs[i], docs[k])
        IN /\ SortCompare(docs[i], docs[i]) = 0
           /\ (ij = 0) => (SortCompare(docs[j], docs[i]) = 0)
           /\ (ij = 0 /\ jk = 0) => (ik = 0)
           /\ (ij < 0 /\ jk < 0) => (ik < 0)
           /\ (ij > 0 /\ jk > 0) => (ik > 0)

\* The stable sort of the index array `arr` under the comparator.
StableSort(docs, arr) ==
    LET insert(acc, x) ==
            LET k == Cardinality({j \in 1..Len(acc) : SortCompare(docs[acc[j]], docs[x]) <= 0})
            IN SubSeq(acc, 1, k) \o <<x>> \o SubSeq(acc, k + 1, Len(acc))
        RECURSIVE go(_, _)
        go(i, acc) == IF i > Len(arr) THEN acc ELSE go(i + 1, insert(acc, arr[i]))
    IN go(1, <<>>)

ArrayOrders(arr) ==
    {p \in [1..Len(arr) -> Range(arr)] : Range(p) = Range(arr)}

\* validDocs.sort(comparator): every order the sort may leave the array in.
SortOutcomes(docs, arr) ==
    IF ConsistentComparator(docs, Range(arr))
    THEN {StableSort(docs, arr)}
    ELSE ArrayOrders(arr)

\* No order is remembered for any array.
NoMemo == [pinned |-> FALSE]

\* A sort that may order the same array differently each time.
SortChoicesUnpinned(docs, arr, memo) == SortOutcomes(docs, arr)

\* The orders this call's sort may produce: an implementation-defined order
\* is the engine's own, so the same array is ordered as it was before.
SortChoices(docs, arr, memo) ==
    IF memo.pinned /\ memo.docs = docs /\ memo.input = arr
    THEN {memo.order}
    ELSE SortOutcomes(docs, arr)

\* The last `end` entries instead of the first.
SliceFromEnd(arr, end) ==
    LET len == Len(arr)
        final == IF end < 0 THEN Max(len + end, 0) ELSE Min(end, len)
    IN SubSeq(arr, len - final + 1, len)

\* Slice with an inclusive end index: one entry too many.
SliceInclusiveEnd(arr, end) ==
    LET len == Len(arr)
        final == IF end < 0 THEN Max(len + end + 1, 0) ELSE Min(end + 1, len)
    IN SubSeq(arr, 1, final)

\* Array.prototype.slice(0, end) for an integer end.
Slice(arr, end) ==
    LET len == Len(arr)
        final == IF end < 0 THEN Max(len + end, 0) ELSE Min(end, len)
    IN SubSeq(arr, 1, final)

\* word.toUpperCase(): every character forced to upper case.
CapitalizeEveryCharacter(word) == [i \in 1..Len(word) |-> ToUpperCase(word[i])]

\* word.charAt(0).toUpperCase() + word.slice(1)
Capitalize(word) ==
    IF word = <<>> THEN <<>> ELSE <<ToUpperCase(word[1])>> \o Tail(word)

\* pathParts[0].split('-').map(capitalize).join(' ')
Category(id) ==
    LET pathParts == Split(id, "/")
        words == Split(pathParts[1], "-")
    IN Join([i \in 1..Len(words) |-> Capitalize(words[i])], " ")

DefaultReadingTime == 5

\* The map callback with the frontMatter description taken first.
FormatPreferringFrontMatter(doc) ==
    [title |-> doc.title,
     description |-> IF HasFmDescription(doc) THEN doc.frontMatter.description
                     ELSE IF HasTopDescription(doc) THEN doc.description
                     ELSE "",
     link |-> doc.permalink,
     category |-> Category(doc.id),
     date |-> IF HasDate(doc) THEN doc.frontMatter.last_update.date ELSE "",
     readingTime |-> IF HasReadingTime(doc) THEN doc.frontMatter.reading_time
                     ELSE DefaultReadingTime]

\* The map callback with the comparator's date expression in the date field.
FormatWithSortDate(doc) ==
    [title |-> doc.title,
     description |-> IF HasTopDescription(doc) THEN doc.description
                     ELSE IF HasFmDescription(doc) THEN doc.frontMatter.description
                     ELSE "",
     link |-> doc.permalink,
     category |-> Category(doc.id),
     date |-> SortDate(doc),
     readingTime |-> IF HasReadingTime(doc) THEN doc.frontMatter.reading_time
                     ELSE DefaultReadingTime]

\* The map callback: one LatestDoc from one DocMetadata.
Format(doc) ==
    [title |-> doc.title,
     description |-> IF HasTopDescription(doc) THEN doc.description
                     ELSE IF HasFmDescription(doc) THEN doc.frontMatter.description
                     ELSE "",
     link |-> doc.permalink,
     category |-> Category(doc.id),
     date |-> IF HasDate(doc) THEN doc.frontMatter.last_update.date ELSE "",
     readingTime |-> IF HasReadingTime(doc) THEN doc.frontMatter.reading_time
                     ELSE DefaultReadingTime]

\* The taken entries formatted in reverse order.
MapSliceReversed(docs, sorted, c) ==
    LET taken == Slice(sorted, c)
    IN [i \in 1..Len(taken) |-> Format(docs[taken[Len(taken) + 1 - i]])]

\* sortedDocs.slice(0, count).map(...)
MapSlice(docs, sorted, c) ==
    LET taken == Slice(sorted, c)
    IN [i \in 1..Len(taken) |-> Format(docs[taken[i]])]

(***************************************************************************)
(* The plugin data the accessor yields, and the corpora of the model.      *)
(***************************************************************************)
\* Zero or one binding of field f to a value of S: an optional property.
Optional(f, S) == {<<>>} \cup {f :> v : v \in S}

IdWal == <<"d", "b", "/", "w", "a", "l">>

IdIntro == <<"d", "b", "/", "i", "n", "t", "r", "o">>

Doc(id, description, frontMatter) ==
    [id |-> id, title |-> "T", permalink |-> "/docs"] @@ description @@ frontMatter

\* Every shape the filter tells apart: id, top-level description (absent,
\* empty, non-empty), frontMatter absent or present with its description and
\* draft fields, dated or not.
FilterEntries ==
    {Doc(id, d, fm) :
        id \in {IdWal, IdIntro},
        d \in Optional("description", {"", "top"}),
        fm \in {<<>>} \cup
               {"frontMatter" :> (fd @@ dr @@ lu) :
                    fd \in Optional("description", {"fm"}),
                    dr \in Optional("draft", {FALSE, TRUE}),
                    lu \in Optional("last_update", {[date |-> "2026-01-10"]})}}

\* Every shape the sort tells apart: last_update absent, a date that does not
\* parse, two dates after the epoch, one before it; and a dated draft.
RankEntries ==
    {Doc(IdWal, "description" :> "top", "frontMatter" :> lu) :
        lu \in Optional("last_update",
                        {[date |-> s] : s \in {"soon", "2026-01-10", "2026-01-14", "1969-06-01"}})}
    \cup {Doc(IdWal, "description" :> "top",
              "frontMatter" :> [draft |-> TRUE, last_update |-> [date |-> "2026-01-14"]])}

\* "intro"
IdBareIntro ==
    <<"i", "n", "t", "r", "o">>

\* "algorithms/reintro"
IdReintro ==
    <<"a", "l", "g", "o", "r", "i", "t", "h", "m", "s", "/", "r", "e", "i",
      "n", "t", "r", "o">>

\* "intro/basics"
IdIntroBasics ==
    <<"i", "n", "t", "r", "o", "/", "b", "a", "s", "i", "c", "s">>

\* "distributed-systems/replication/wal"
IdDistributed ==
    <<"d", "i", "s", "t", "r", "i", "b", "u", "t", "e", "d", "-", "s", "y",
      "s", "t", "e", "m", "s", "/", "r", "e", "p", "l", "i", "c", "a", "t",
      "i", "o", "n", "/", "w", "a", "l">>

\* "gRPC-api/faq"
IdMixedCase ==
    <<"g", "R", "P", "C", "-", "a", "p", "i", "/", "f", "a", "q">>

\* "changelog"
IdChangelog ==
    <<"c", "h", "a", "n", "g", "e", "l", "o", "g">>

FormatIds ==
    {IdWal, IdIntro, IdBareIntro, IdReintro, IdIntroBasics, IdDistributed, IdMixedCase, IdChangelog}

\* Every shape the map callback and the intro test tell apart: the id, and
\* reading_time absent, zero, negative or positive.
FormatEntries ==
    {Doc(id, "description" :> "top", "frontMatter" :> rt) :
        id \in FormatIds,
        rt \in Optional("reading_time", {0, 0 - 3, 25})}

\* The entries of the end-to-end scenario: A is dated 2026-01-10, B has no
\* date, C has an id ending in "/intro" and the latest date of the three.
EntryA ==
    [id |-> IdWal, title |-> "A", permalink |-> "/docs/db/wal", description |-> "about A",
     frontMatter |-> [draft |-> FALSE, last_update |-> [date |-> "2026-01-10"]]]

EntryB ==
    [id |-> IdChangelog, title |-> "B", permalink |-> "/docs/changelog", description |-> "about B",
     frontMatter |-> <<>>]

EntryC ==
    [id |-> IdIntro, title |-> "C", permalink |-> "/docs/db/intro", description |-> "about C",
     frontMatter |-> [last_update |-> [date |-> "2026-01-14"]]]

ScenarioEntries == {EntryA, EntryB, EntryC}

\* The shapes repeated calls are made on: last_update absent, a date that
\* does not parse, and two dates that do.
RepeatEntries ==
    {Doc(IdWal, "description" :> "top", "frontMatter" :> lu) :
        lu \in Optional("last_update",
                        {[date |-> s] : s \in {"soon", "2026-01-10", "2026-01-14"}})}

\* The shapes that differ in their optional fields: top-level description
\* absent, empty or given; frontMatter absent, empty, or holding a
\* description, a date, both, or a description and draft: true.
OptionalFieldEntries ==
    {Doc(id, d, fm) :
        id \in {IdWal, IdIntro},
        d \in Optional("description", {"", "top"}),
        fm \in {<<>>,
                "frontMatter" :> <<>>,
                "frontMatter" :> [description |-> "fm"],
                "frontMatter" :> [last_update |-> [date |-> "2026-01-10"]],
                "frontMatter" :> [description |-> "fm", last_update |-> [date |-> "2026-01-10"]],
                "frontMatter" :> [description |-> "fm", draft |-> TRUE]}}

\* A usable snapshot: { versions: [ { docs: [...] } ] }.
Snapshot(docs) ==
    [kind |-> "object",
     versions |-> <<[kind |-> "object", docs |-> [kind |-> "array", items |-> docs]]>>]

\* What the accessor can do besides yielding a usable snapshot: throw, yield
\* undefined, {}, { versions: [] }, { versions: [null] }, { versions: [{}] },
\* docs null, and docs a truthy value that is not an array.
OtherPluginData ==
    {[kind |-> "throws"],
     [kind |-> "undefined"],
     [kind |-> "object"],
     [kind |-> "object", versions |-> <<>>],
     [kind |-> "object", versions |-> <<[kind |-> "null"]>>],
     [kind |-> "object", versions |-> <<[kind |-> "object"]>>],
     [kind |-> "object", versions |-> <<[kind |-> "object", docs |-> [kind |-> "null"]]>>],
     [kind |-> "object", versions |-> <<[kind |-> "object", docs |-> [kind |-> "object"]]>>]}

\* An eligible entry that occurs in later versions only, newer than any other.
EntryLater ==
    [id |-> IdDistributed, title |-> "later", permalink |-> "/docs/next/wal",
     description |-> "about later",
     frontMatter |-> [last_update |-> [date |-> "2026-01-14"], reading_time |-> 25]]

\* One element of versions: { docs: [...] }.
Version(docs) == [kind |-> "object", docs |-> [kind |-> "array", items |-> docs]]

\* What versions[0] can be in a snapshot of several versions: usable, or
\* an object without docs.
FirstVersions ==
    {Version(docs) : docs \in SeqsUpTo(ScenarioEntries, MaxVersionDocs)}
    \cup {[kind |-> "object"]}

\* What a later element of versions can be: usable (empty, or holding the
\* later-only entry, alone or before an entry of versions[0]), null, or an
\* object without docs.
LaterVersions ==
    {Version(<<>>), Version(<<EntryLater>>), Version(<<EntryLater, EntryA>>),
     [kind |-> "null"], [kind |-> "object"]}

\* The snapshots of up to 1 + MaxLaterVersions versions.
VersionedSnapshots ==
    {[kind |-> "object", versions |-> <<first>> \o later] :
        first \in FirstVersions, later \in SeqsUpTo(LaterVersions, MaxLaterVersions)}

\* usePluginData(...) throws.
AccessorThrows(pd) == pd.kind = "throws"

\* The guard testing pluginData alone: if (!pluginData) return [];
HasDocsUnguarded(pd) == pd.kind = "object"

\* pluginData?.versions?.[0]?.docs is truthy
HasDocs(pd) ==
    /\ pd.kind = "object"
    /\ Has(pd, "versions")
    /\ Len(pd.versions) >= 1
    /\ pd.versions[1].kind = "object"
    /\ Has(pd.versions[1], "docs")
    /\ pd.versions[1].docs.kind # "null"

\* if (!pluginData?.versions?.[0]?.docs) return [];
NoData(pd) == ~HasDocs(pd)

\* const allDocs = pluginData.versions[0].docs raises a TypeError: there is
\* no object to read versions, [0] or docs from.
ReadRaises(pd) ==
    \/ pd.kind # "object"
    \/ ~Has(pd, "versions")
    \/ Len(pd.versions) = 0
    \/ pd.versions[1].kind # "object"

\* allDocs.filter(...) raises a TypeError: allDocs is not an array.
FilterRaises(pd) ==
    \/ ~Has(pd.versions[1], "docs")
    \/ pd.versions[1].docs.kind # "array"

\* The corpus of a usable snapshot, and <<>> for anything else.
Corpus(pd) ==
    IF ~AccessorThrows(pd) /\ ~ReadRaises(pd) /\ ~FilterRaises(pd)
    THEN pd.versions[1].docs.items
    ELSE <<>>

(***************************************************************************)
(* The call.                                                               *)
(***************************************************************************)
DefaultCount == 3

\* A catch clause that logs and rethrows.
CatchRethrows == [result |-> <<>>, outcome |-> "threw"]

\* catch (error) { console.error(...); return []; }
CatchClause == [result |-> <<>>, outcome |-> "caught"]

\* if (...) { return []; }
NoDataReturn == [result |-> <<>>, outcome |-> "noData"]

\* The corpus array after a sort of allDocs itself.
AllDocsSortedInPlace(pd, sortedDocs) ==
    LET allDocs == pd.versions[1].docs.items
        order == StableSort(allDocs, [i \in 1..Len(allDocs) |-> i])
    IN [pd EXCEPT !.versions[1].docs.items = [i \in 1..Len(allDocs) |-> allDocs[order[i]]]]

\* The plugin data after the pipeline: filter made a new array, sort worked
\* on that one, and the callbacks only read their entries.
AfterPipeline(pd, sortedDocs) == pd

\* const allDocs = pluginData.versions[last].docs, where that is an array.
AllDocsOfLastVersion(pd) ==
    LET last == pd.versions[Len(pd.versions)]
    IN IF last.kind = "object" /\ Has(last, "docs") /\ last.docs.kind = "array"
       THEN last.docs.items
       ELSE <<>>

\* const allDocs = pluginData.versions[0].docs
AllDocs(pd) == pd.versions[1].docs.items

(***************************************************************************)
(* FontSizeControl: the font-size and reading-mode panel.                  *)
(***************************************************************************)
\* useState(16)
DefaultFontSize == 16

minSize == 12

maxSize == 24

\* const wordsPerMinute = 200
wordsPerMinute == 200

FontSizeKey == "article-font-size"

VisibilityKey == "font-control-visibility"

ReadingModeKey == "reading-mode"

\* The style.fontSize of the article's elements before applyFontSize sets it.
Unstyled == 0

\* The word count of a page that has no article element.
NoArticle == 0

\* No handleFontSizeChange call has been made.
NoRequest == 0

\* The page before any FontSizeControl is mounted: no article styled, the
\* body without the reading-mode class, the root without --reading-mode;
\* words is the number of words of the article.
PlainDocument(words) ==
    [fontSize |-> Unstyled, readingModeActive |-> FALSE, readingModeProperty |-> FALSE,
     words |-> words]

\* No FontSizeControl is part of the behaviour.
ComponentAbsent ==
    /\ mounted = FALSE
    /\ fontSize = DefaultFontSize
    /\ isVisible = TRUE
    /\ isReadingMode = FALSE
    /\ readingTime = 0
    /\ localStorage = <<>>
    /\ document = PlainDocument(NoArticle)
    /\ setItems = <<>>
    /\ requested = NoRequest
    /\ toggleTrail = <<>>

InitWith(snapshots) ==
    /\ pluginData \in snapshots
    /\ pc = "idle"
    /\ count = DefaultCount
    /\ validDocs = <<>>
    /\ result = <<>>
    /\ outcome = "none"
    /\ calls = 0
    /\ earlier = <<>>
    /\ sortMemo = NoMemo
    /\ articles = <<>>
    /\ cards = <<>>
    /\ runs = <<>>
    /\ ComponentAbsent

Init(entries, maxLen) ==
    InitWith(OtherPluginData \cup {Snapshot(docs) : docs \in SeqsUpTo(entries, maxLen)})

\* The body of useLatestDocs(c), from its first line to its return.
Call(c) ==
    /\ count' = c
    /\ calls' = calls + 1
    /\ UNCHANGED <<runs, componentVars>>
    /\ earlier' = IF calls > 0 THEN (count :> result) @@ earlier ELSE earlier
    /\ IF AccessorThrows(pluginData)
       THEN /\ result' = CatchClause.result
            /\ outcome' = CatchClause.outcome
            /\ UNCHANGED <<validDocs, pluginData, sortMemo>>
       ELSE IF NoData(pluginData)
       THEN /\ result' = NoDataReturn.result
            /\ outcome' = NoDataReturn.outcome
            /\ UNCHANGED <<validDocs, pluginData, sortMemo>>
       ELSE IF ReadRaises(pluginData) \/ FilterRaises(pluginData)
       THEN /\ result' = CatchClause.result
            /\ outcome' = CatchClause.outcome
            /\ UNCHANGED <<validDocs, pluginData, sortMemo>>
       ELSE LET allDocs == AllDocs(pluginData)
                filtered == Filter(allDocs)
            IN \E sortedDocs \in SortChoices(allDocs, filtered, sortMemo) :
                /\ validDocs' = sortedDocs
                /\ sortMemo' = [pinned |-> TRUE, docs |-> allDocs,
                                input |-> filtered, order |-> sortedDocs]
                /\ result' = MapSlice(allDocs, sortedDocs, c)
                /\ outcome' = "mapped"
                /\ pluginData' = AfterPipeline(pluginData, sortedDocs)

\* The first call of useLatestDocs(c).
UseLatestDocs(c) ==
    /\ pc = "idle"
    /\ pc' = "returned"
    /\ Call(c)
    /\ UNCHANGED <<articles, cards>>

\* A later call of useLatestDocs(c), on the same plugin data.
UseLatestDocsAgain(c) ==
    /\ pc = "returned"
    /\ calls < MaxCalls
    /\ pc' = "returned"
    /\ Call(c)
    /\ UNCHANGED <<articles, cards>>

\* The accessor yields another snapshot, one that agrees with the present
\* one on versions[0] and differs from it in the later versions.
OtherSnapshot ==
    /\ pc = "returned"
    /\ calls < MaxCalls
    /\ pc' = "refreshed"
    /\ \E other \in VersionedSnapshots :
           /\ other.versions[1] = pluginData.versions[1]
           /\ other # pluginData
           /\ pluginData' = other
    /\ UNCHANGED <<count, validDocs, result, outcome, calls, earlier, sortMemo, articles, cards>>
    /\ UNCHANGED <<runs, componentVars>>

\* A call of useLatestDocs(c) on the other snapshot.
UseLatestDocsOnOther(c) ==
    /\ pc = "refreshed"
    /\ pc' = "returned"
    /\ Call(c)
    /\ UNCHANGED <<articles, cards>>

NextVersions ==
    \/ \E c \in Counts \cup {DefaultCount} : UseLatestDocs(c)
    \/ OtherSnapshot
    \/ \E c \in Counts \cup {DefaultCount} : UseLatestDocsOnOther(c)

(***************************************************************************)
(* Two calls of the hook that proceed step by step.  Each call has its     *)
(* own snapshot, its own argument and its own locals (allDocs, validDocs). *)
(***************************************************************************)
CallIds == {1, 2}

ReentrantSnapshots ==
    OtherPluginData \cup {Snapshot(docs) : docs \in SeqsUpTo(ScenarioEntries, MaxReentrantDocs)}

\* A call that has not executed any statement yet.
NewRun(pd, c) ==
    [pc |-> "start", pluginData |-> pd, given |-> pd, count |-> c,
     result |-> <<>>, outcome |-> "none", overlapped |-> FALSE,
     locals |-> [allDocs |-> <<>>, validDocs |-> <<>>]]

\* Locals kept in one place for all calls: those of the first call.
LocalsOfFirstCall(rs, i) == rs[1].locals

\* const allDocs, const validDocs, const sortedDocs of call i: block-scoped
\* in the function body, one set per call.
Locals(rs, i) == rs[i].locals

\* Call i is between its guard and its return.
InFlight(r) == r.pc \in {"filter", "sort", "format"}

\* Call i takes a step while another call is in flight, or has done so.
Overlaps(i) == runs[i].overlapped \/ \E j \in CallIds \ {i} : InFlight(runs[j])

\* What the call would return if it ran alone, from its first line to its
\* return.
AloneResults(pd, c) ==
    IF AccessorThrows(pd) \/ NoData(pd) \/ ReadRaises(pd) \/ FilterRaises(pd)
    THEN {<<>>}
    ELSE {MapSlice(AllDocs(pd), sortedDocs, c) :
              sortedDocs \in SortOutcomes(AllDocs(pd), Filter(AllDocs(pd)))}

\* try { usePluginData(...); if (!pluginData?.versions?.[0]?.docs) return [];
RunGuard(i) ==
    /\ runs[i].pc = "start"
    /\ LET r == runs[i]
           ended == IF AccessorThrows(r.pluginData) THEN CatchClause ELSE NoDataReturn
       IN IF AccessorThrows(r.pluginData) \/ NoData(r.pluginData)
          THEN runs' = [runs EXCEPT ![i].pc = "returned",
                                    ![i].result = ended.result,
                                    ![i].outcome = ended.outcome,
                                    ![i].overlapped = Overlaps(i)]
          ELSE runs' = [runs EXCEPT ![i].pc = "filter", ![i].overlapped = Overlaps(i)]
    /\ UNCHANGED <<hookVars, componentVars>>

\* const allDocs = pluginData.versions[0].docs; const validDocs = allDocs.filter(...)
RunFilter(i) ==
    /\ runs[i].pc = "filter"
    /\ LET r == runs[i]
       IN IF ReadRaises(r.pluginData) \/ FilterRaises(r.pluginData)
          THEN runs' = [runs EXCEPT ![i].pc = "returned",
                                    ![i].result = CatchClause.result,
                                    ![i].outcome = CatchClause.outcome,
                                    ![i].overlapped = Overlaps(i)]
          ELSE runs' = [runs EXCEPT ![i].pc = "sort",
                                    ![i].overlapped = Overlaps(i),
                                    ![i].locals = [allDocs |-> AllDocs(r.pluginData),
                                                   validDocs |-> Filter(AllDocs(r.pluginData))]]
    /\ UNCHANGED <<hookVars, componentVars>>

\* const sortedDocs = validDocs.sort(...)
RunSort(i) ==
    /\ runs[i].pc = "sort"
    /\ LET own == Locals(runs, i)
       IN \E sortedDocs \in SortOutcomes(own.allDocs, own.validDocs) :
              runs' = [runs EXCEPT ![i].pc = "format",
                                   ![i].overlapped = Overlaps(i),
                                   ![i].locals = [allDocs |-> own.allDocs, validDocs |-> sortedDocs],
                                   ![i].pluginData = AfterPipeline(runs[i].pluginData, sortedDocs)]
    /\ UNCHANGED <<hookVars, componentVars>>

\* return sortedDocs.slice(0, count).map(...)
RunFormat(i) ==
    /\ runs[i].pc = "format"
    /\ LET own == Locals(runs, i)
       IN runs' = [runs EXCEPT ![i].pc = "returned",
                               ![i].overlapped = Overlaps(i),
                               ![i].result = MapSlice(own.allDocs, own.validDocs, runs[i].count),
                               ![i].outcome = "mapped"]
    /\ UNCHANGED <<hookVars, componentVars>>

NextReentrant ==
    \E i \in CallIds : RunGuard(i) \/ RunFilter(i) \/ RunSort(i) \/ RunFormat(i)

\* No call of the atomic hook is part of the behaviour.
HookIdle ==
    /\ pluginData = [kind |-> "undefined"]
    /\ pc = "idle"
    /\ count = DefaultCount
    /\ validDocs = <<>>
    /\ result = <<>>
    /\ outcome = "none"
    /\ calls = 0
    /\ earlier = <<>>
    /\ sortMemo = NoMemo
    /\ articles = <<>>
    /\ cards = <<>>

\* Two calls on different snapshots, neither started.
InitReentrant ==
    /\ HookIdle
    /\ ComponentAbsent
    /\ \E pd1, pd2 \in ReentrantSnapshots :
           \E c1, c2 \in 1..MaxReentrantCount :
               /\ pd1 # pd2
               /\ runs = (1 :> NewRun(pd1, c1)) @@ (2 :> NewRun(pd2, c2))

SpecReentrant == InitReentrant /\ [][NextReentrant]_vars

(***************************************************************************)
(* The homepage section that shows the latest articles.                   *)
(***************************************************************************)
\* useLatestDocs(3)
LatestCount == 3

\* export function formatReadingTime(minutes)
formatReadingTime(minutes) == ToString(minutes) \o " min read"

\* const fallbackArticles = [...]
fallbackArticles ==
    <<[title |-> "Write-Ahead Logging (WAL)",
       category |-> "Distributed Systems",
       description |-> "Write-Ahead Logging (WAL) is a fundamental technique in database systems that ensures data durability and consistency by recording changes to a log before applying them to the actual data store.",
       link |-> "/docs/distributed-systems/replication/wal",
       readingTime |-> 25],
      [title |-> "Segmented Log Architecture",
       category |-> "Distributed Systems",
       description |-> "The Segmented Log architecture addresses scalability limitations in WAL systems by partitioning logs into bounded segments for better performance and maintenance.",
       link |-> "/docs/distributed-systems/replication/segmented-log",
       readingTime |-> 18],
      [title |-> "Quick Sort Algorithm",
       category |-> "Algorithms",
       description |-> "Quick Sort is one of the most efficient sorting algorithms using divide-and-conquer strategy to achieve O(n log n) average-case performance.",
       link |-> "/docs/algorithms/sorting/quick-sort",
       readingTime |-> 12]>>

\* The fallback articles put after the latest documents, whatever their number.
ArticlesAppended(latestDocs) == latestDocs \o fallbackArticles

\* const articles = latestDocs.length > 0 ? latestDocs : fallbackArticles;
Articles(latestDocs) == IF Len(latestDocs) > 0 THEN latestDocs ELSE fallbackArticles

\* One <Link> card: target, category, title, excerpt and reading time.
ArticleCard(article, idx) ==
    [key |-> idx,
     to |-> article.link,
     articleCategory |-> article.category,
     articleTitle |-> article.title,
     articleExcerpt |-> article.description,
     readTime |-> formatReadingTime(article.readingTime)]

\* articles.map((article, idx) => <Link ...>), keys counted from 0.
ArticleCards(list) == [k \in 1..Len(list) |-> ArticleCard(list[k], k - 1)]

\* One render of LatestArticlesSection: the hook call, the choice between
\* its output and the fallback articles, and the cards.
LatestArticlesSection ==
    /\ pc = "idle"
    /\ pc' = "rendered"
    /\ Call(LatestCount)
    /\ articles' = Articles(result')
    /\ cards' = ArticleCards(articles')

Next == \E c \in Counts \cup {DefaultCount} : UseLatestDocs(c)

NextPage == LatestArticlesSection

NextCalls ==
    \/ \E c \in Counts \cup {DefaultCount} : UseLatestDocs(c)
    \/ \E c \in Counts \cup {DefaultCount} : UseLatestDocsAgain(c)

(***************************************************************************)
(* FontSizeControl: mount, unmount and the handlers.  The handlers are     *)
(* taken as invoked on any request while the component is mounted; the     *)
(* disabled attributes of the buttons, which repeat the handler's range    *)
(* test, are not made preconditions, so the handler's own test is          *)
(* exercised at the bounds.                                                *)
(***************************************************************************)
\* The result of parseInt for a string with no leading number: a value that
\* is no size and fails every comparison.
NaN == 0 - 1

\* parseInt(s, 10) for strings that are not plain decimal numbers: no
\* digits, digits followed by other characters, a fraction.
ParseIntSpecial == ("" :> NaN) @@ ("abc" :> NaN) @@ ("18px" :> 18) @@ ("16.9" :> 16)

\* The plain decimal numbers of the model: one below minSize to one above maxSize.
Decimals == (minSize - 1)..(maxSize + 1)

\* Number.prototype.toString / Boolean.prototype.toString
NumberToString(n) == ToString(n)

BooleanToString(b) == IF b THEN "true" ELSE "false"

\* parseInt(string, 10)
parseInt(string) ==
    IF string \in DOMAIN ParseIntSpecial THEN ParseIntSpecial[string]
    ELSE IF \E n \in Decimals : NumberToString(n) = string
    THEN CHOOSE n \in Decimals : NumberToString(n) = string
    ELSE NaN

\* What 'article-font-size' can hold before the first mount.
SavedFontSizes == {"", "abc", "18px", "16.9", "11", "25", "12", "24"}

\* localStorage before the first mount: each key absent or set.
InitialStorages ==
    {f @@ v @@ r :
        f \in Optional(FontSizeKey, SavedFontSizes),
        v \in Optional(VisibilityKey, {"true", "false"}),
        r \in Optional(ReadingModeKey, {"true", "false", "on"})}

\* The word counts of the article: no article, or a text of so many words.
ArticleWords == {NoArticle, 1, 201}

\* localStorage.getItem(key) is not null.
HasItem(storage, key) == key \in DOMAIN storage

\* A setItem that stores nothing.
SetItemDropped(storage, key, value) == storage

\* localStorage.setItem(key, value)
SetItem(storage, key, value) == (key :> value) @@ storage

\* A range test without the upper bound.
InRangeWithoutMax(size) == size # NaN /\ size >= minSize

\* size >= minSize && size <= maxSize, false for NaN
InRange(size) == size # NaN /\ size >= minSize /\ size <= maxSize

\* applyFontSize(size): the article's elements get font-size `${size}px`
\* (and the line height and code size derived from it).
applyFontSize(doc, size) == [doc EXCEPT !.fontSize = size]

\* Math.ceil(wordCount / wordsPerMinute)
Minutes(wordCount) == (wordCount + wordsPerMinute - 1) \div wordsPerMinute

\* A switch that adds the class and the property and never removes them.
SetReadingModeAddOnly(doc, on) ==
    IF on THEN [doc EXCEPT !.readingModeActive = TRUE, !.readingModeProperty = TRUE] ELSE doc

\* document.body.classList.add / remove('reading-mode-active') and
\* documentElement.style.setProperty / removeProperty('--reading-mode')
SetReadingMode(doc, on) ==
    [doc EXCEPT !.readingModeActive = on, !.readingModeProperty = on]

\* The first render and the mount effect.
Mount ==
    /\ ~mounted
    /\ mounted' = TRUE
    /\ LET savedFontSize == IF HasItem(localStorage, FontSizeKey) THEN localStorage[FontSizeKey] ELSE ""
           size == parseInt(savedFontSize)
           restore == savedFontSize # "" /\ InRange(size)
           savedReadingMode == HasItem(localStorage, ReadingModeKey) /\ localStorage[ReadingModeKey] = "true"
           styled == IF restore THEN applyFontSize(document, size) ELSE document
       IN /\ fontSize' = IF restore THEN size ELSE DefaultFontSize
          /\ isVisible' = IF HasItem(localStorage, VisibilityKey)
                          THEN localStorage[VisibilityKey] = "true"
                          ELSE TRUE
          /\ isReadingMode' = savedReadingMode
          /\ document' = IF savedReadingMode THEN SetReadingMode(styled, TRUE) ELSE styled
          /\ readingTime' = IF document.words = NoArticle THEN 0 ELSE Minutes(document.words)
    /\ toggleTrail' = <<>>
    /\ requested' = NoRequest
    /\ UNCHANGED <<localStorage, setItems>>
    /\ UNCHANGED <<hookVars, runs>>

\* The component is removed; no effect has a cleanup, so the page and
\* localStorage stay as they are.  The state variables keep the values they
\* had and mean nothing until the next mount.
Unmount ==
    /\ mounted
    /\ mounted' = FALSE
    /\ toggleTrail' = <<>>
    /\ UNCHANGED <<fontSize, isVisible, isReadingMode, readingTime, localStorage, document,
                   setItems, requested>>
    /\ UNCHANGED <<hookVars, runs>>

\* A rejected change that falls back to the default size.
RejectedResets(newSize) ==
    /\ fontSize' = DefaultFontSize
    /\ document' = applyFontSize(document, DefaultFontSize)
    /\ localStorage' = SetItem(localStorage, FontSizeKey, NumberToString(DefaultFontSize))
    /\ setItems' = SetItem(setItems, FontSizeKey, NumberToString(DefaultFontSize))

\* The test of handleFontSizeChange fails: nothing is done.
Rejected(newSize) == UNCHANGED <<fontSize, document, localStorage, setItems>>

\* setFontSize(newSize); applyFontSize(newSize); localStorage.setItem(...)
Accepted(newSize) ==
    /\ fontSize' = newSize
    /\ document' = applyFontSize(document, newSize)
    /\ localStorage' = SetItem(localStorage, FontSizeKey, NumberToString(newSize))
    /\ setItems' = (FontSizeKey :> NumberToString(newSize)) @@ setItems

handleFontSizeChange(newSize) ==
    /\ mounted
    /\ requested' = newSize
    /\ IF InRange(newSize) THEN Accepted(newSize) ELSE Rejected(newSize)
    /\ toggleTrail' = <<>>
    /\ UNCHANGED <<mounted, isVisible, isReadingMode, readingTime>>
    /\ UNCHANGED <<hookVars, runs>>

increaseFontSize == handleFontSizeChange(fontSize + 1)

decreaseFontSize == handleFontSizeChange(fontSize - 1)

resetFontSize == handleFontSizeChange(DefaultFontSize)

toggleVisibility ==
    /\ mounted
    /\ LET newVisibility == ~isVisible
       IN /\ isVisible' = newVisibility
          /\ localStorage' = SetItem(localStorage, VisibilityKey, BooleanToString(newVisibility))
          /\ setItems' = (VisibilityKey :> BooleanToString(newVisibility)) @@ setItems
    /\ toggleTrail' = <<>>
    /\ UNCHANGED <<mounted, fontSize, isReadingMode, readingTime, document, requested>>
    /\ UNCHANGED <<hookVars, runs>>

\* Reading mode as it is now: the state, the body class and what is stored.
ReadingModeNow ==
    [isReadingMode |-> isReadingMode,
     readingModeActive |-> document.readingModeActive,
     stored |-> IF HasItem(localStorage, ReadingModeKey)
                THEN [set |-> TRUE, value |-> localStorage[ReadingModeKey]]
                ELSE [set |-> FALSE]]

toggleReadingMode ==
    /\ mounted
    /\ LET newReadingMode == ~isReadingMode
       IN /\ isReadingMode' = newReadingMode
          /\ document' = SetReadingMode(document, newReadingMode)
          /\ localStorage' = SetItem(localStorage, ReadingModeKey, BooleanToString(newReadingMode))
          /\ setItems' = (ReadingModeKey :> BooleanToString(newReadingMode)) @@ setItems
    /\ toggleTrail' = IF Len(toggleTrail) = 2
                      THEN <<toggleTrail[2], ReadingModeNow>>
                      ELSE Append(toggleTrail, ReadingModeNow)
    /\ UNCHANGED <<mounted, fontSize, isVisible, readingTime, requested>>
    /\ UNCHANGED <<hookVars, runs>>

NextComponent ==
    \/ Mount
    \/ Unmount
    \/ increaseFontSize
    \/ decreaseFontSize
    \/ resetFontSize
    \/ toggleVisibility
    \/ toggleReadingMode

InitComponent ==
    /\ HookIdle
    /\ runs = <<>>
    /\ mounted = FALSE
    /\ fontSize = DefaultFontSize
    /\ isVisible = TRUE
    /\ isReadingMode = FALSE
    /\ readingTime = 0
    /\ localStorage \in InitialStorages
    /\ document \in {PlainDocument(words) : words \in ArticleWords}
    /\ setItems = <<>>
    /\ requested = NoRequest
    /\ toggleTrail = <<>>

SpecComponent == InitComponent /\ [][NextComponent]_vars

InitFilter == Init(FilterEntries, MaxDocs)

InitRank == Init(RankEntries, MaxRanked)

Spec == InitFilter /\ [][Next]_vars

SpecRank == InitRank /\ [][Next]_vars

InitFormat == Init(FormatEntries, MaxFormatted)

SpecFormat == InitFormat /\ [][Next]_vars

InitScenario == Init(ScenarioEntries, MaxScenario)

SpecScenario == InitScenario /\ [][Next]_vars

InitPage == Init(RankEntries, MaxRanked)

SpecPage == InitPage /\ [][NextPage]_vars

InitVersions == InitWith(VersionedSnapshots)

SpecVersions == InitVersions /\ [][NextVersions]_vars

InitDefaults == Init(OptionalFieldEntries, MaxDefaulted)

SpecDefaults == InitDefaults /\ [][Next]_vars

InitCalls == Init(RepeatEntries, MaxRepeated)

SpecCalls == InitCalls /\ [][NextCalls]_vars

(***************************************************************************)
(* Properties.  `Returned` is the state after a call; Docs is the corpus   *)
(* the call read; Origin(p) is the corpus entry behind output entry p.     *)
(***************************************************************************)
Returned == pc = "returned"

Docs == Corpus(pluginData)

Origin(p) == Docs[validDocs[p]]

\* Eligibility as the contract words it: a non-empty description at top level
\* or in frontMatter, an id that does not end in "intro", draft not true.
ContractEligible(doc) ==
    /\ \/ ("description" \in DOMAIN doc /\ doc.description # "")
       \/ /\ "frontMatter" \in DOMAIN doc
          /\ "description" \in DOMAIN doc.frontMatter
          /\ doc.frontMatter.description # ""
    /\ ~(Len(doc.id) >= 5 /\ SubSeq(doc.id, Len(doc.id) - 4, Len(doc.id)) = <<"i", "n", "t", "r", "o">>)
    /\ ~("frontMatter" \in DOMAIN doc
         /\ "draft" \in DOMAIN doc.frontMatter
         /\ doc.frontMatter.draft = TRUE)

EligibleCount == Cardinality({i \in 1..Len(Docs) : ContractEligible(Docs[i])})

\* C1: for every snapshot and every count >= 0, the output has exactly
\* min(count, number of eligible entries of versions[0].docs) entries.
C1_LengthIsMinOfCountAndEligible ==
    (Returned /\ count >= 0) =>
        Len(result) = (IF count <= EligibleCount THEN count ELSE EligibleCount)

\* C1 witness: a call that truncates (two eligible entries, count 1).
C1_Witness ==
    /\ Returned
    /\ count = 1
    /\ EligibleCount = 2
    /\ Len(Docs) = 2
    /\ Len(result) = 1

\* C2: a negative count is clamped to 0: the output is empty.
C2_NegativeCountYieldsEmpty ==
    (Returned /\ count < 0) => result = <<>>

\* The entry carries a last_update.date field.
HasDateField(doc) ==
    /\ "frontMatter" \in DOMAIN doc
    /\ "last_update" \in DOMAIN doc.frontMatter
    /\ "date" \in DOMAIN doc.frontMatter.last_update

DateField(doc) == doc.frontMatter.last_update.date

\* The entry's date is a non-empty string that parses as a date.
HasParseableDate(doc) ==
    HasDateField(doc) /\ DateField(doc) # "" /\ DateParses(DateField(doc))

\* The entry's date is a non-empty string that does not parse as a date.
HasUnparsableDate(doc) ==
    HasDateField(doc) /\ DateField(doc) # "" /\ ~DateParses(DateField(doc))

\* The two entries' dates are equal, or both are missing.
SameDateOrBothMissing(a, b) ==
    \/ HasDateField(a) /\ HasDateField(b) /\ DateField(a) = DateField(b)
    \/ ~HasDateField(a) /\ ~HasDateField(b)

\* C3: ranking is stable: of two output entries with equal or both-missing
\* dates, the one that comes first in the corpus comes first in the output.
C3_StableRanking ==
    (Returned /\ outcome = "mapped") =>
        \A p, q \in 1..Len(result) :
            (p < q /\ SameDateOrBothMissing(Origin(p), Origin(q)))
                => validDocs[p] < validDocs[q]

\* The corpus with every unparsable date replaced by an absent date.
DocsWithoutUnparsableDates ==
    [i \in 1..Len(Docs) |->
        IF HasUnparsableDate(Docs[i])
        THEN [Docs[i] EXCEPT !.frontMatter =
                 [f \in (DOMAIN @) \ {"last_update"} |-> @[f]]]
        ELSE Docs[i]]

\* C4: an unparsable date is ranked as a missing one: the output order is the
\* order the call yields with every unparsable date replaced by an absent one.
C4_UnparsableRankedAsMissing ==
    (Returned /\ outcome = "mapped") =>
        \E ranked \in SortOutcomes(DocsWithoutUnparsableDates,
                                   Filter(DocsWithoutUnparsableDates)) :
            SubSeq(validDocs, 1, Len(result)) = SubSeq(ranked, 1, Len(result))

\* C5: in the ranked order every eligible entry without a date comes after
\* every eligible entry with a parseable date.
C5_UndatedSortLast ==
    (Returned /\ outcome = "mapped") =>
        \A p, q \in 1..Len(validDocs) :
            (~HasDateField(Origin(p)) /\ HasParseableDate(Origin(q))) => q < p

\* C6: consecutive output entries with parseable dates are in descending date
\* order, and no entry left out of the output for count k is more recent than
\* an entry in it.
C6_DescendingMostRecentFirst ==
    (Returned /\ outcome = "mapped" /\ count >= 0) =>
        /\ \A p \in 1..(Len(result) - 1) :
               (HasParseableDate(Origin(p)) /\ HasParseableDate(Origin(p + 1)))
                   => DateTable[DateField(Origin(p))] >= DateTable[DateField(Origin(p + 1))]
        /\ \A p \in 1..Len(result) : \A q \in (Len(result) + 1)..Len(validDocs) :
               (HasParseableDate(Origin(p)) /\ HasParseableDate(Origin(q)))
                   => DateTable[DateField(Origin(p))] >= DateTable[DateField(Origin(q))]

\* The snapshot is absent or lacks the shape { versions: [ { docs: [...] } ] }.
Malformed(pd) ==
    \/ pd.kind # "object"
    \/ "versions" \notin DOMAIN pd
    \/ pd.versions = <<>>
    \/ pd.versions[1].kind # "object"
    \/ "docs" \notin DOMAIN pd.versions[1]
    \/ pd.versions[1].docs.kind # "array"

\* C7: the call never propagates an error: it always returns, and when the
\* accessor throws, the snapshot is absent or malformed, or a stage raises,
\* it returns the empty sequence.
C7_NeverPropagates ==
    Returned =>
        /\ outcome \in {"noData", "mapped", "caught"}
        /\ (Malformed(pluginData) \/ outcome = "caught") => result = <<>>

\* C7 witness: a stage raised (docs is not an array) and the call returned [].
C7_Witness ==
    /\ Returned
    /\ pluginData.kind = "object"
    /\ outcome = "caught"
    /\ result = <<>>

\* C8: {} , an empty versions list and a versions[0] without docs are "no
\* data": the call returns [] through the guard, nothing raised or caught.
C8_MissingShapeIsNoData ==
    (/\ Returned
     /\ pluginData.kind = "object"
     /\ \/ "versions" \notin DOMAIN pluginData
        \/ pluginData.versions = <<>>
        \/ "docs" \notin DOMAIN pluginData.versions[1])
    => (result = <<>> /\ outcome = "noData")

\* C8 witness: the snapshot {} was read and the guard returned [].
C8_Witness ==
    /\ Returned
    /\ pluginData = [kind |-> "object"]
    /\ outcome = "noData"
    /\ result = <<>>

IsDraft(doc) ==
    /\ "frontMatter" \in DOMAIN doc
    /\ "draft" \in DOMAIN doc.frontMatter
    /\ doc.frontMatter.draft = TRUE

\* C9: no entry with frontMatter.draft = true appears in the output.
C9_NoDraftInOutput ==
    Returned => \A p \in 1..Len(result) : ~IsDraft(Origin(p))

\* C9 witness: a dated draft with a description and a plain id stands first
\* in the corpus, the count covers the corpus, and only the other entry is
\* returned.
C9_Witness ==
    /\ Returned
    /\ Len(Docs) = 2
    /\ count >= 2
    /\ IsDraft(Docs[1])
    /\ HasDateField(Docs[1])
    /\ "description" \in DOMAIN Docs[1] /\ Docs[1].description = "top"
    /\ Docs[1].id = IdWal
    /\ Len(result) = 1
    /\ validDocs = <<2>>

HasNoDescription(doc) ==
    /\ ("description" \in DOMAIN doc => doc.description = "")
    /\ ("frontMatter" \in DOMAIN doc /\ "description" \in DOMAIN doc.frontMatter)
           => doc.frontMatter.description = ""

\* C10: every output entry has a non-empty description, and no entry whose
\* descriptions are both absent or empty appears in the output.
C10_OutputHasDescription ==
    Returned =>
        \A p \in 1..Len(result) :
            result[p].description # "" /\ ~HasNoDescription(Origin(p))

\* C10 witness: of two undrafted entries with plain ids, the one without any
\* description is left out and the other is returned with its frontMatter
\* description.
C10_Witness ==
    /\ Returned
    /\ Len(Docs) = 2
    /\ count >= 2
    /\ HasNoDescription(Docs[1]) /\ ~IsDraft(Docs[1]) /\ Docs[1].id = IdWal
    /\ validDocs = <<2>>
    /\ Len(result) = 1
    /\ result[1].description = "fm"

\* The entry at corpus position i is one of the entries returned.
InOutput(i) == \E p \in 1..Len(result) : validDocs[p] = i

\* The last five characters of the id spell "intro".
EndsInIntro(id) ==
    /\ Len(id) >= 5
    /\ \A k \in 1..5 : id[Len(id) - 5 + k] = <<"i", "n", "t", "r", "o">>[k]

\* The entry has a description and is not a draft.
DescribedAndUndrafted(doc) ==
    /\ ~HasNoDescription(doc)
    /\ ~IsDraft(doc)

\* C11: an entry whose id ends with "intro" (as "/intro", as the whole id, or
\* as a trailing substring) is never in the output, and an entry that has a
\* description, is not a draft and whose id does not end with "intro" (even
\* if it contains "intro" elsewhere) is in the output whenever the count
\* covers the corpus.
C11_IntroExclusion ==
    (Returned /\ outcome = "mapped") =>
        \A i \in 1..Len(Docs) :
            /\ EndsInIntro(Docs[i].id) => ~InOutput(i)
            /\ (~EndsInIntro(Docs[i].id) /\ DescribedAndUndrafted(Docs[i]) /\ count >= Len(Docs))
                   => InOutput(i)

\* C11 witness: of "algorithms/reintro" and "intro/basics", only the second
\* is returned.
C11_Witness ==
    /\ Returned
    /\ Len(Docs) = 2
    /\ Docs[1].id = IdReintro
    /\ Docs[2].id = IdIntroBasics
    /\ count = 2
    /\ validDocs = <<2>>
    /\ Len(result) = 1

\* The entry carries a reading_time field.
HasReadingTimeField(doc) ==
    /\ "frontMatter" \in DOMAIN doc
    /\ "reading_time" \in DOMAIN doc.frontMatter

\* C12: readingTime of every output entry is positive: it is the entry's
\* reading_time when that is present and positive, and 5 when reading_time is
\* absent, zero or negative.
C12_ReadingTimePositive ==
    Returned =>
        \A p \in 1..Len(result) :
            /\ result[p].readingTime > 0
            /\ result[p].readingTime =
                   (IF HasReadingTimeField(Origin(p)) /\ Origin(p).frontMatter.reading_time > 0
                    THEN Origin(p).frontMatter.reading_time
                    ELSE 5)

\* The part of C12 the code keeps: reading_time absent or zero gives 5, and
\* any other reading_time is passed on as it is.
ReadingTimeDefaultedWhenFalsy ==
    Returned =>
        \A p \in 1..Len(result) :
            result[p].readingTime =
                (IF HasReadingTimeField(Origin(p)) /\ Origin(p).frontMatter.reading_time # 0
                 THEN Origin(p).frontMatter.reading_time
                 ELSE 5)

\* C13: no call changes the snapshot: versions[0].docs holds the same entries
\* in the same order after the call as before it, and every entry keeps
\* every field.
C13_InputNotMutated == [][pluginData' = pluginData]_vars

\* C13 witness: the call ranked the dated second entry before the undated
\* first one, and the corpus still holds them in their original order.
C13_Witness ==
    /\ Returned
    /\ outcome = "mapped"
    /\ Len(Docs) = 2
    /\ ~HasDateField(Docs[1])
    /\ HasParseableDate(Docs[2]) /\ DateField(Docs[2]) = "2026-01-10"
    /\ validDocs = <<2, 1>>
    /\ count = 2
    /\ result[1].date = "2026-01-10"

\* The category the contract gives for each id of the model that can be
\* returned, written out character by character.
ExpectedCategory(id) ==
    CASE id = IdWal -> <<"D", "b">>
      [] id = IdIntroBasics -> <<"I", "n", "t", "r", "o">>
      [] id = IdDistributed ->
             <<"D", "i", "s", "t", "r", "i", "b", "u", "t", "e", "d", " ",
               "S", "y", "s", "t", "e", "m", "s">>
      [] id = IdMixedCase -> <<"G", "R", "P", "C", " ", "A", "p", "i">>
      [] id = IdChangelog -> <<"C", "h", "a", "n", "g", "e", "l", "o", "g">>

\* C14: the category of every output entry is the first "/"-segment of the
\* entry's id, split on "-", each word with its first character in upper
\* case and the rest as written, joined by single spaces:
\* "distributed-systems/replication/wal" gives "Distributed Systems".
C14_CategoryFromId ==
    Returned =>
        \A p \in 1..Len(result) :
            result[p].category = ExpectedCategory(Origin(p).id)

\* C14 witness: "distributed-systems/replication/wal" and "gRPC-api/faq" are
\* returned as "Distributed Systems" and "GRPC Api".
C14_Witness ==
    /\ Returned
    /\ Len(result) = 2
    /\ Origin(1).id = IdDistributed
    /\ Origin(2).id = IdMixedCase
    /\ result[1].category =
           <<"D", "i", "s", "t", "r", "i", "b", "u", "t", "e", "d", " ",
             "S", "y", "s", "t", "e", "m", "s">>
    /\ result[2].category = <<"G", "R", "P", "C", " ", "A", "p", "i">>

\* C15: the date of every output entry is the entry's last_update.date when
\* it has one and the empty string otherwise; an entry without a date is
\* never returned with the ranking sentinel "1970-01-01".
C15_DateOrEmpty ==
    Returned =>
        \A p \in 1..Len(result) :
            /\ result[p].date = (IF HasDateField(Origin(p)) THEN DateField(Origin(p)) ELSE "")
            /\ ~HasDateField(Origin(p)) => result[p].date # "1970-01-01"

\* C15 witness: a dated entry and an undated one are both returned, the
\* first with its date and the second with the empty string.
C15_Witness ==
    /\ Returned
    /\ Len(result) = 2
    /\ HasDateField(Origin(1)) /\ result[1].date = "2026-01-14"
    /\ ~HasDateField(Origin(2)) /\ result[2].date = ""

\* The entry has a top-level description and either no frontMatter at all or
\* a frontMatter without draft, reading_time, last_update and description.
LacksOptionalFields(doc) ==
    /\ "description" \in DOMAIN doc /\ doc.description # ""
    /\ "frontMatter" \in DOMAIN doc =>
           DOMAIN doc.frontMatter \cap {"draft", "reading_time", "last_update", "description"} = {}

\* C16: an entry with a top-level description and no frontMatter (or a
\* frontMatter without the optional fields) is defaulted and never fatal: the
\* call completes, every eligible entry is ranked (the defaulted one too,
\* unless its id ends with "intro"), the defaulted entry ranks as dated
\* 1970-01-01 (after every entry dated later, in corpus order among the
\* undated), and it is returned with date "" and readingTime 5.
C16_MissingFieldsDefaulted ==
    (Returned /\ \E i \in 1..Len(Docs) : LacksOptionalFields(Docs[i])) =>
        /\ outcome = "mapped"
        /\ \A i \in 1..Len(Docs) : ContractEligible(Docs[i]) => i \in Range(validDocs)
        /\ (count >= 1 /\ EligibleCount >= 1) => result # <<>>
        /\ \A p \in 1..Len(validDocs) :
               LacksOptionalFields(Origin(p)) =>
                   /\ \A q \in 1..Len(validDocs) :
                          /\ HasParseableDate(Origin(q)) /\ GetTime(DateField(Origin(q))) > 0 => q < p
                          /\ ~HasDateField(Origin(q)) => (q < p <=> validDocs[q] < validDocs[p])
                   /\ p <= Len(result) => result[p].date = "" /\ result[p].readingTime = 5

\* C16 witness: an entry without frontMatter stands before a dated entry in
\* the corpus; both are returned, the dated one first.
C16_Witness ==
    /\ Returned
    /\ Len(Docs) = 2
    /\ "frontMatter" \notin DOMAIN Docs[1]
    /\ LacksOptionalFields(Docs[1])
    /\ HasParseableDate(Docs[2])
    /\ validDocs = <<2, 1>>
    /\ Len(result) = 2
    /\ result[2].date = ""
    /\ result[2].readingTime = 5

CuratedA ==
    [title |-> "A", description |-> "about A", link |-> "/docs/db/wal",
     category |-> <<"D", "b">>, date |-> "2026-01-10", readingTime |-> 5]

CuratedB ==
    [title |-> "B", description |-> "about B", link |-> "/docs/changelog",
     category |-> <<"C", "h", "a", "n", "g", "e", "l", "o", "g">>, date |-> "", readingTime |-> 5]

\* The corpus holds A, B and C once each, in some order.
IsScenarioCorpus ==
    /\ Len(Docs) = 3
    /\ \E a, b, c \in 1..3 :
           /\ {a, b, c} = {1, 2, 3}
           /\ Docs[a].title = "A" /\ Docs[b].title = "B" /\ Docs[c].title = "C"

\* C18: for the corpus of A (dated 2026-01-10), B (no date) and C (id ending
\* in "/intro"), in any order, a call with count 2 returns exactly the
\* curated A followed by the curated B.
C18_ScenarioReturnsAThenB ==
    (Returned /\ IsScenarioCorpus /\ count = 2) => result = <<CuratedA, CuratedB>>

\* C18 witness: the corpus in the order C, B, A, called with count 2.
C18_Witness ==
    /\ Returned
    /\ count = 2
    /\ Len(Docs) = 3
    /\ Docs[1].title = "C" /\ Docs[2].title = "B" /\ Docs[3].title = "A"
    /\ Len(result) = 2
    /\ result[1].title = "A"
    /\ result[2].title = "B"

Rendered == pc = "rendered"

\* The titles and link targets of the three static fallback articles.
FallbackTitles ==
    <<"Write-Ahead Logging (WAL)", "Segmented Log Architecture", "Quick Sort Algorithm">>

FallbackLinks ==
    <<"/docs/distributed-systems/replication/wal",
      "/docs/distributed-systems/replication/segmented-log",
      "/docs/algorithms/sorting/quick-sort">>

\* Card k shows the entry e.
Shows(k, e) ==
    /\ cards[k].to = e.link
    /\ cards[k].articleTitle = e.title
    /\ cards[k].articleCategory = e.category
    /\ cards[k].articleExcerpt = e.description

\* C19: the section calls the hook with count 3; when the hook's output is
\* not empty the cards are exactly its entries, in order; when it is empty
\* the cards are exactly the three fallback articles; the two lists are never
\* mixed and there are between one and three cards.
C19_CallerFallback ==
    Rendered =>
        /\ count = 3
        /\ Len(cards) \in 1..3
        /\ result # <<>> =>
               /\ Len(cards) = Len(result)
               /\ \A k \in 1..Len(cards) : Shows(k, result[k])
               /\ \A k \in 1..Len(cards) : cards[k].articleTitle \notin Range(FallbackTitles)
        /\ result = <<>> =>
               /\ Len(cards) = 3
               /\ \A k \in 1..3 :
                      cards[k].articleTitle = FallbackTitles[k] /\ cards[k].to = FallbackLinks[k]

\* C19 witness: four eligible entries, of which three are rendered.
C19_Witness ==
    /\ Rendered
    /\ Len(validDocs) = 4
    /\ Len(result) = 3
    /\ Len(cards) = 3
    /\ cards[1].articleTitle = "T"

\* The other case of C19: the hook returned nothing although the corpus is
\* not empty, and the three fallback articles are rendered.
C19_WitnessFallback ==
    /\ Rendered
    /\ Len(Docs) = 1
    /\ result = <<>>
    /\ Len(cards) = 3
    /\ cards[3].articleTitle = "Quick Sort Algorithm"

\* C20: only versions[0].docs is read: a call on a snapshot that agrees on
\* versions[0] with the snapshot of an earlier call of the same count and
\* differs from it in the later versions returns what that call returned,
\* and no entry that occurs only in a later version is ever returned.
C20_OnlyFirstVersionRead ==
    Returned =>
        /\ count \in DOMAIN earlier => result = earlier[count]
        /\ \A p \in 1..Len(result) : result[p].title # "later"

\* C20 witness: the second call is made on a snapshot whose second version
\* holds the later-only entry, newer than A, and returns A alone as the
\* first call did.
C20_Witness ==
    /\ Returned
    /\ calls = 2
    /\ count = 2
    /\ count \in DOMAIN earlier
    /\ Len(pluginData.versions) = 2
    /\ pluginData.versions[2] = Version(<<EntryLater>>)
    /\ Docs = <<EntryA>>
    /\ Len(result) = 1
    /\ result[1].title = "A"
    /\ Len(earlier[count]) = 1

\* C22: the formatter drops and reorders nothing beyond truncation: the
\* output is no longer than the ranked eligible sequence, for a count >= 0 it
\* has min(count, length of that sequence) entries, and its i-th entry has
\* the title and the permalink of the i-th ranked entry.
C22_FormatKeepsOrder ==
    Returned =>
        /\ Len(result) <= Len(validDocs)
        /\ count >= 0 => Len(result) = (IF count <= Len(validDocs) THEN count ELSE Len(validDocs))
        /\ \A i \in 1..Len(result) :
               /\ result[i].title = Docs[validDocs[i]].title
               /\ result[i].link = Docs[validDocs[i]].permalink

\* C22 witness: B stands before A in the corpus, A is ranked first, and both
\* are returned with their own title and permalink.
C22_Witness ==
    /\ Returned
    /\ Len(Docs) = 2
    /\ Docs[1].title = "B" /\ Docs[2].title = "A"
    /\ validDocs = <<2, 1>>
    /\ Len(result) = 2
    /\ result[1].title = "A" /\ result[1].link = "/docs/db/wal"
    /\ result[2].title = "B" /\ result[2].link = "/docs/changelog"

\* The entry's top-level description is present and not empty.
TopDescriptionGiven(doc) == "description" \in DOMAIN doc /\ doc.description # ""

\* The entry's frontMatter description is present and not empty.
FmDescriptionGiven(doc) ==
    /\ "frontMatter" \in DOMAIN doc
    /\ "description" \in DOMAIN doc.frontMatter
    /\ doc.frontMatter.description # ""

\* C23: the description of every output entry is the entry's top-level
\* description when that is not empty (also when the frontMatter has one) and
\* the frontMatter description otherwise; and an undrafted entry whose id
\* does not end with "intro" is ranked exactly if one of the two is not empty.
C23_DescriptionPrecedence ==
    Returned =>
        /\ \A p \in 1..Len(result) :
               result[p].description =
                   (IF TopDescriptionGiven(Origin(p)) THEN Origin(p).description
                    ELSE Origin(p).frontMatter.description)
        /\ outcome = "mapped" =>
               \A i \in 1..Len(Docs) :
                   (~EndsInIntro(Docs[i].id) /\ ~IsDraft(Docs[i])) =>
                       (i \in Range(validDocs) <=>
                            (TopDescriptionGiven(Docs[i]) \/ FmDescriptionGiven(Docs[i])))

\* C23 witness: the first entry has both descriptions and is returned with
\* the top-level one; the second has an empty top-level description and is
\* returned with the frontMatter one.
C23_Witness ==
    /\ Returned
    /\ Len(Docs) = 2
    /\ validDocs = <<1, 2>>
    /\ Len(result) = 2
    /\ TopDescriptionGiven(Docs[1]) /\ FmDescriptionGiven(Docs[1])
    /\ result[1].description = "top"
    /\ "description" \in DOMAIN Docs[2] /\ Docs[2].description = ""
    /\ result[2].description = "fm"

\* The sequence s is a prefix of the sequence t.
IsPrefix(s, t) == Len(s) <= Len(t) /\ s = SubSeq(t, 1, Len(s))

\* C24: for counts k >= 0 and k + 1 on the same snapshot, the output for k
\* is a prefix of the output for k + 1, whichever of the two calls is made
\* first.
C24_PrefixMonotone ==
    Returned =>
        \A k \in DOMAIN earlier :
            /\ (k >= 0 /\ count = k + 1) => IsPrefix(earlier[k], result)
            /\ (count >= 0 /\ k = count + 1) => IsPrefix(result, earlier[k])

\* C24 witness: on a corpus of three eligible entries, one of them with a
\* date that does not parse, the call with count 1 is followed by the call
\* with count 2, which returns the same first entry and one more.
C24_Witness ==
    /\ Returned
    /\ calls = 2
    /\ count = 2
    /\ 1 \in DOMAIN earlier
    /\ Len(Docs) = 3
    /\ Len(validDocs) = 3
    /\ \E i \in 1..3 : HasUnparsableDate(Docs[i])
    /\ Len(earlier[1]) = 1
    /\ Len(result) = 2
    /\ result[1] = earlier[1][1]
    /\ result[2].date # result[1].date

\* The output entries that carry the title and the permalink of the entry e.
OutputsOf(e) == {p \in 1..Len(result) : result[p].title = e.title /\ result[p].link = e.permalink}

\* The corpus positions that hold the entry e.
PositionsOf(e) == {i \in 1..Len(Docs) : Docs[i] = e}

\* C25: nothing is invented and nothing is duplicated: the output entries
\* come from pairwise distinct positions of versions[0].docs, each holding an
\* eligible entry; every output entry has the title and link of a corpus
\* entry; and an entry is returned at most as often as it occurs in the
\* corpus.
C25_NoInventionNoDuplication ==
    Returned =>
        /\ \A p \in 1..Len(result) :
               /\ validDocs[p] \in 1..Len(Docs)
               /\ ContractEligible(Docs[validDocs[p]])
               /\ \E i \in 1..Len(Docs) :
                      result[p].title = Docs[i].title /\ result[p].link = Docs[i].permalink
        /\ \A p, q \in 1..Len(result) : p # q => validDocs[p] # validDocs[q]
        /\ \A i \in 1..Len(Docs) :
               Cardinality(OutputsOf(Docs[i])) <= Cardinality(PositionsOf(Docs[i]))

\* C25 witness: the corpus holds A twice and C once; A is returned twice and
\* nothing else is.
C25_Witness ==
    /\ Returned
    /\ Len(Docs) = 3
    /\ Docs[1].title = "A" /\ Docs[2].title = "C" /\ Docs[3].title = "A"
    /\ count = 3
    /\ validDocs = <<1, 3>>
    /\ Len(result) = 2
    /\ result[1].title = "A" /\ result[2].title = "A"

\* C21: when two calls on different snapshots are interleaved step by step,
\* each call returns an output it would return if it ran alone, and no step
\* of either call changes a snapshot.
C21_InterleavedCallsIndependent ==
    \A i \in DOMAIN runs :
        /\ runs[i].pluginData = runs[i].given
        /\ runs[i].pc = "returned" => runs[i].result \in AloneResults(runs[i].given, runs[i].count)

\* C21 witness: both calls have returned, each took a step while the other
\* was between its guard and its return, and their outputs differ.
C21_Witness ==
    /\ DOMAIN runs = {1, 2}
    /\ runs[1].pc = "returned" /\ runs[2].pc = "returned"
    /\ runs[1].overlapped /\ runs[2].overlapped
    /\ runs[1].outcome = "mapped" /\ runs[2].outcome = "mapped"
    /\ Len(runs[1].result) = 2
    /\ Len(runs[2].result) = 1
    /\ runs[1].result[1].title = "A"
    /\ runs[2].result[1].title = "B"

\* C26: while the component is mounted, fontSize is an integer from 12 to
\* 24, whatever 'article-font-size' held at mount, and the value the
\* component last wrote to 'article-font-size' is the decimal form of such
\* an integer.
C26_FontSizeInBounds ==
    /\ mounted => fontSize \in 12..24
    /\ FontSizeKey \in DOMAIN setItems =>
           \E n \in 12..24 : setItems[FontSizeKey] = ToString(n)

\* C26 witness: the component has decreased the size to 12, written "12",
\* and has then been asked to decrease once more.
C26_Witness ==
    /\ mounted
    /\ fontSize = 12
    /\ requested = 11
    /\ FontSizeKey \in DOMAIN setItems
    /\ setItems[FontSizeKey] = "12"
    /\ localStorage[FontSizeKey] = "12"

\* C27: an increase requested at fontSize 24 and a decrease requested at
\* fontSize 12 leave fontSize, the font size applied to the page and
\* localStorage (with it 'article-font-size') as they are.
C27_RejectedChangeIsNoOp ==
    [][((increaseFontSize /\ fontSize = 24) \/ (decreaseFontSize /\ fontSize = 12)) =>
           (/\ fontSize' = fontSize
            /\ document'.fontSize = document.fontSize
            /\ localStorage' = localStorage
            /\ setItems' = setItems)]_vars

\* C27 witness: at fontSize 24, with 24 applied and "24" stored, the handler
\* has been asked for 25.
C27_Witness ==
    /\ mounted
    /\ fontSize = 24
    /\ requested = 25
    /\ document.fontSize = 24
    /\ FontSizeKey \in DOMAIN localStorage
    /\ localStorage[FontSizeKey] = "24"

\* C28: once the component has written 'article-font-size', the stored value
\* is the decimal form of fontSize in every mounted state; mounting again
\* after an unmount restores the fontSize the component had; and reset always
\* yields fontSize 16.
C28_PersistenceRoundTrip ==
    [][/\ (mounted' /\ FontSizeKey \in DOMAIN setItems') =>
              /\ FontSizeKey \in DOMAIN localStorage'
              /\ localStorage'[FontSizeKey] = ToString(fontSize')
       /\ (Mount /\ FontSizeKey \in DOMAIN setItems) => fontSize' = fontSize
       /\ resetFontSize => fontSize' = 16]_vars

\* C28 witness: an earlier instance of the component changed the size to 17
\* and was unmounted; the component has been mounted again and shows 17.
C28_Witness ==
    /\ mounted
    /\ requested = NoRequest
    /\ FontSizeKey \in DOMAIN setItems
    /\ setItems[FontSizeKey] = "17"
    /\ localStorage[FontSizeKey] = "17"
    /\ fontSize = 17
    /\ document.fontSize = 17

\* The body class and the state agree, and after a toggle the stored
\* 'reading-mode' is the state's "true" or "false".
ReadingModeAgrees ==
    /\ document.readingModeActive <=> isReadingMode
    /\ toggleTrail # <<>> =>
           /\ ReadingModeKey \in DOMAIN localStorage
           /\ localStorage[ReadingModeKey] = (IF isReadingMode THEN "true" ELSE "false")

\* C29 as stated: while the component is mounted the body carries
\* 'reading-mode-active' exactly if isReadingMode is true; after any toggle
\* the stored 'reading-mode' equals isReadingMode; and two toggles in a row
\* restore the state, the body class and the stored value.
C29_ReadingModeConsistent ==
    mounted =>
        /\ ReadingModeAgrees
        /\ Len(toggleTrail) = 2 => ReadingModeNow = toggleTrail[1]

\* C29 as it holds: the same, except that two toggles restore the stored
\* value only if it was "true" or "false" before them; a 'reading-mode' that
\* was absent or held anything else is "false" afterwards, with reading mode
\* off as it was before.
C29_ReadingModeConsistentAmended ==
    mounted =>
        /\ ReadingModeAgrees
        /\ Len(toggleTrail) = 2 =>
               LET before == toggleTrail[1]
               IN /\ isReadingMode = before.isReadingMode
                  /\ document.readingModeActive = before.readingModeActive
                  /\ IF before.stored.set /\ before.stored.value \in {"true", "false"}
                     THEN ReadingModeNow.stored = before.stored
                     ELSE ~isReadingMode /\ localStorage[ReadingModeKey] = "false"

\* C29 witness: mounted with no 'reading-mode' stored, the component has
\* been toggled on and off again; the state and the class are as before and
\* 'reading-mode' is now "false".
C29_Witness ==
    /\ mounted
    /\ Len(toggleTrail) = 2
    /\ ~toggleTrail[1].stored.set
    /\ ~toggleTrail[1].isReadingMode
    /\ toggleTrail[2].isReadingMode
    /\ ~isReadingMode
    /\ ~document.readingModeActive
    /\ localStorage[ReadingModeKey] = "false"

====
